---- MODULE Spec2Model ----
(***************************************************************************)
(* A model of the evalexpr value model, numeric type abstraction, built-in *)
(* function catalog and tree evaluator.                                    *)
(*                                                                         *)
(* IntType is modelled as a two's-complement integer of IntBits bits (the  *)
(* source instantiates it with i64); FloatType is modelled on a grid of    *)
(* half units between -F64_MAX and F64_MAX, with the two infinities and    *)
(* NaN.  The grid reaches beyond the integer range on both sides, as f64   *)
(* reaches beyond i64.                                                     *)
(***************************************************************************)
EXTENDS Integers, Sequences, FiniteSets, TLC

VARIABLES build, context, out, iter

vars == <<build, context, out, iter>>

----------------------------------------------------------------------------
(* Bounds of the model *)

\* width of the modelled IntType, in bits
IntBits == 4

\* longest argument tuple handed to a built-in
MaxTupleLen == 3

\* longest `;`-separated sequence evaluated
MaxChain == 3

\* most children of a node of a tree that is iterated over
MaxChildren == 3

----------------------------------------------------------------------------
(* Option and Result *)

None == [tag |-> "None"]

Some(x) == [tag |-> "Some", val |-> x]

\* the call did not return: the implementation panicked
Panicked == [tag |-> "Panic"]

----------------------------------------------------------------------------
(* Numeric types: src/value/numeric_types.rs *)

Pow2(n) == IF n <= 0 THEN 1 ELSE 2 ^ n

\* i64::MIN and i64::MAX of the modelled width
I64_MIN == -Pow2(IntBits - 1)

I64_MAX == Pow2(IntBits - 1) - 1

IntRange == I64_MIN .. I64_MAX

\* wrap an unbounded integer into the two's-complement range
Wrap(n) == ((n - I64_MIN) % Pow2(IntBits)) + I64_MIN

\* Floats: a finite float is its value in half units; the grid ends at
\* F64_MAX, which lies far outside the integer range.
F64_MAX_N == 8 * Pow2(IntBits)

INF_N == F64_MAX_N + 1

Fin(n) == [nan |-> FALSE, n |-> n]

NaN == [nan |-> TRUE, n |-> 0]

F64_MIN == Fin(-F64_MAX_N)

F64_MAX == Fin(F64_MAX_N)

NEG_INFINITY == Fin(-INF_N)

INFINITY == Fin(INF_N)

\* f64 comparisons: every comparison with NaN is false
f64_lt(a, b) == ~a.nan /\ ~b.nan /\ a.n < b.n

f64_gt(a, b) == ~a.nan /\ ~b.nan /\ a.n > b.n

f64_eq(a, b) == ~a.nan /\ ~b.nan /\ a.n = b.n

f64_is_infinite(a) == ~a.nan /\ (a.n = INF_N \/ a.n = -INF_N)

\* Half of the unit in the last place of the largest finite floats, in
\* half units.  For f64 it is 2^970; what matters is that it exceeds 1.0.
F64_HALF_ULP_N == Pow2(IntBits)

\* The float constant 1.0, in half units
ONE_N == 2

\* round an exact result given in half units to the nearest float: a result
\* beyond the largest finite float by less than half a unit in the last
\* place rounds back to it, anything farther overflows to infinity
f64_round(n) == IF n >= F64_MAX_N + F64_HALF_ULP_N THEN INFINITY
                ELSE IF n <= -(F64_MAX_N + F64_HALF_ULP_N) THEN NEG_INFINITY
                ELSE IF n > F64_MAX_N THEN F64_MAX
                ELSE IF n < -F64_MAX_N THEN F64_MIN
                ELSE Fin(n)

\* f64 addition and subtraction
f64_add(a, b) ==
    IF a.nan \/ b.nan THEN NaN
    ELSE IF f64_is_infinite(a) /\ f64_is_infinite(b)
         THEN IF a.n = b.n THEN a ELSE NaN
    ELSE IF f64_is_infinite(a) THEN a
    ELSE IF f64_is_infinite(b) THEN b
    ELSE f64_round(a.n + b.n)

f64_neg(a) == IF a.nan THEN NaN ELSE Fin(-a.n)

f64_sub(a, b) == f64_add(a, f64_neg(b))

\* impl Number for i64
i64_min_value == Some(I64_MIN)

i64_max_value == Some(I64_MAX)

i64_min(self, other) == IF self < other THEN self ELSE other

i64_max(self, other) == IF self > other THEN self ELSE other

\* impl Number for f64: the debug assertions are compiled only into builds
\* with debug assertions enabled, where a failing one panics.
f64_min_value ==
    LET result == f64_sub(F64_MIN, Fin(ONE_N))
    IN  IF build = "debug" /\ ~(f64_is_infinite(result) /\ result.n < 0)
        THEN Panicked
        ELSE Some(result)

f64_max_value ==
    LET result == f64_add(F64_MAX, Fin(ONE_N))
    IN  IF build = "debug" /\ ~(f64_is_infinite(result) /\ result.n > 0)
        THEN Panicked
        ELSE Some(result)

f64_min(self, other) == IF f64_lt(self, other) THEN self ELSE other

f64_max(self, other) == IF f64_gt(self, other) THEN self ELSE other

\* impl Integer<f64> for i64
as_float(self) == Fin(2 * self)

checked_add_wrapping(self, other) == Some(Wrap(self + other))

checked_add(self, other) ==
    LET r == self + other
    IN  IF r < I64_MIN \/ r > I64_MAX THEN None ELSE Some(r)

checked_sub(self, other) ==
    LET r == self - other
    IN  IF r < I64_MIN \/ r > I64_MAX THEN None ELSE Some(r)

checked_mul(self, other) ==
    LET r == self * other
    IN  IF r < I64_MIN \/ r > I64_MAX THEN None ELSE Some(r)

Abs(n) == IF n < 0 THEN -n ELSE n

Sign(n) == IF n < 0 THEN -1 ELSE 1

\* division truncating toward zero, as Rust's `/` on integers
TruncDiv(a, b) == Sign(a) * Sign(b) * (Abs(a) \div Abs(b))

checked_div(self, other) ==
    IF other = 0 THEN None
    ELSE LET r == TruncDiv(self, other)
         IN  IF r < I64_MIN \/ r > I64_MAX THEN None ELSE Some(r)

\* i64::checked_rem is None for a zero divisor and for MIN % -1
checked_rem(self, other) ==
    IF other = 0 THEN None
    ELSE IF self = I64_MIN /\ other = -1 THEN None
    ELSE Some(self - other * TruncDiv(self, other))

checked_neg(self) ==
    IF self = I64_MIN THEN None ELSE Some(-self)

\* the bit pattern of an integer, as an unsigned number of IntBits bits
ToUnsigned(n) == n % Pow2(IntBits)

RECURSIVE bits_and(_, _)
bits_and(a, b) ==
    IF a = 0 \/ b = 0 THEN 0
    ELSE (IF a % 2 = 1 /\ b % 2 = 1 THEN 1 ELSE 0) + 2 * bits_and(a \div 2, b \div 2)

RECURSIVE bits_or(_, _)
bits_or(a, b) ==
    IF a = 0 /\ b = 0 THEN 0
    ELSE (IF a % 2 = 1 \/ b % 2 = 1 THEN 1 ELSE 0) + 2 * bits_or(a \div 2, b \div 2)

RECURSIVE bits_xor(_, _)
bits_xor(a, b) ==
    IF a = 0 /\ b = 0 THEN 0
    ELSE (IF a % 2 # b % 2 THEN 1 ELSE 0) + 2 * bits_xor(a \div 2, b \div 2)

bitand(self, other) == Wrap(bits_and(ToUnsigned(self), ToUnsigned(other)))

bitor(self, other) == Wrap(bits_or(ToUnsigned(self), ToUnsigned(other)))

bitxor(self, other) == Wrap(bits_xor(ToUnsigned(self), ToUnsigned(other)))

\* a shift amount is in range when it is neither negative nor as large as
\* the width of the type
shift_in_range(other) == other \in 0 .. IntBits - 1

\* Shl::shl(*self, *other) as a build compiles it: with overflow checks (the
\* debug profile) a shift amount out of range panics; without them the
\* amount is reduced modulo the width and the bits shifted out are lost
shl_in(profile, self, other) ==
    IF ~shift_in_range(other) /\ profile = "debug" THEN Panicked
    ELSE Some(Wrap(self * Pow2(other % IntBits)))

\* Shr::shr(*self, *other): likewise; the shift is arithmetic
shr_in(profile, self, other) ==
    IF ~shift_in_range(other) /\ profile = "debug" THEN Panicked
    ELSE Some(self \div Pow2(other % IntBits))

shl(self, other) == shl_in(build, self, other)

shr(self, other) == shr_in(build, self, other)

\* from_usize_lossy: `value as i64`
from_usize_lossy(value) == Wrap(value)

----------------------------------------------------------------------------
(* The value model: src/value/mod.rs *)

\* enum Value { String, Float, Int, Boolean, Tuple, Empty }: `kind` is the
\* variant, and the field of that variant carries the payload (the other
\* fields hold fixed defaults).
Value_String(string) ==
    [kind |-> "String", s |-> string, i |-> 0, f |-> Fin(0), b |-> FALSE, t |-> <<>>]

Value_Float(float) ==
    [kind |-> "Float", s |-> "", i |-> 0, f |-> float, b |-> FALSE, t |-> <<>>]

Value_Int(int) ==
    [kind |-> "Int", s |-> "", i |-> int, f |-> Fin(0), b |-> FALSE, t |-> <<>>]

Value_Boolean(boolean) ==
    [kind |-> "Boolean", s |-> "", i |-> 0, f |-> Fin(0), b |-> boolean, t |-> <<>>]

Value_Tuple(tuple) ==
    [kind |-> "Tuple", s |-> "", i |-> 0, f |-> Fin(0), b |-> FALSE, t |-> tuple]

Value_Empty ==
    [kind |-> "Empty", s |-> "", i |-> 0, f |-> Fin(0), b |-> FALSE, t |-> <<>>]

\* EvalexprError: the variant, the offending value, the expected length and
\* the expected kinds
EvalexprError(kind, actual, len) ==
    [kind |-> kind, actual |-> actual, len |-> len, expected |-> <<>>]

NoError == EvalexprError("", Value_Empty, 0)

\* EvalexprResult, with the panic as a third outcome
Ok(v) == [tag |-> "Ok", val |-> v, err |-> NoError]

Err(e) == [tag |-> "Err", val |-> Value_Empty, err |-> e]

Panic == [tag |-> "Panic", val |-> Value_Empty, err |-> NoError]

expected_string(actual) == EvalexprError("ExpectedString", actual, 0)

expected_int(actual) == EvalexprError("ExpectedInt", actual, 0)

expected_float(actual) == EvalexprError("ExpectedFloat", actual, 0)

expected_number(actual) == EvalexprError("ExpectedNumber", actual, 0)

expected_boolean(actual) == EvalexprError("ExpectedBoolean", actual, 0)

expected_tuple(actual) == EvalexprError("ExpectedTuple", actual, 0)

expected_fixed_len_tuple(len, actual) ==
    EvalexprError("ExpectedFixedLenTuple", actual, len)

expected_empty(actual) == EvalexprError("ExpectedEmpty", actual, 0)

NoMinValue == EvalexprError("NoMinValue", Value_Empty, 0)

NoMaxValue == EvalexprError("NoMaxValue", Value_Empty, 0)

\* EvalexprError::type_error(actual, expected)
type_error(actual, expected) ==
    [EvalexprError("TypeError", actual, 0) EXCEPT !.expected = expected]

\* EvalexprError::invalid_regex(regex, message): the regex is kept, the
\* message of the regex library is not
invalid_regex(regex) == EvalexprError("InvalidRegex", Value_String(regex), 0)

is_string(self) == self.kind = "String"

is_int(self) == self.kind = "Int"

is_float(self) == self.kind = "Float"

is_number(self) == self.kind = "Int" \/ self.kind = "Float"

is_boolean(self) == self.kind = "Boolean"

is_tuple(self) == self.kind = "Tuple"

is_empty(self) == self.kind = "Empty"

\* The accessors return the payload itself; the calling action wraps it in a
\* Value only to record it.
as_string(self) ==
    IF self.kind = "String" THEN Ok(Value_String(self.s))
    ELSE Err(expected_string(self))

as_int_coercing(self) ==
    IF self.kind = "Int" THEN Ok(Value_Int(self.i))
    ELSE IF self.kind = "Float" THEN Ok(Value_Int(self.f.n \div 2))
    ELSE Err(expected_int(self))

as_int(self) ==
    IF self.kind = "Int" THEN Ok(Value_Int(self.i))
    ELSE Err(expected_int(self))

as_float_value(self) ==
    IF self.kind = "Float" THEN Ok(Value_Float(self.f))
    ELSE Err(expected_float(self))

as_boolean(self) ==
    IF self.kind = "Boolean" THEN Ok(Value_Boolean(self.b))
    ELSE Err(expected_boolean(self))

as_tuple(self) ==
    IF self.kind = "Tuple" THEN Ok(Value_Tuple(self.t))
    ELSE Err(expected_tuple(self))

as_fixed_len_tuple(self, len) ==
    IF self.kind = "Tuple"
    THEN IF Len(self.t) = len THEN Ok(Value_Tuple(self.t))
         ELSE Err(expected_fixed_len_tuple(len, self))
    ELSE Err(expected_tuple(self))

as_empty(self) ==
    IF self.kind = "Empty" THEN Ok(Value_Empty)
    ELSE Err(expected_empty(self))

as_number(self) ==
    IF self.kind = "Float" THEN Ok(Value_Float(self.f))
    ELSE IF self.kind = "Int" THEN Ok(Value_Float(as_float(self.i)))
    ELSE Err(expected_number(self))

\* #[derive(PartialEq)] on Value: the same variant, and equal payloads by
\* the payload type's own equality (f64's for Float, element by element for
\* Tuple).
RECURSIVE Value_eq_numeric(_, _)
Value_eq_numeric(a, b) ==
    IF is_number(a) /\ is_number(b)
    THEN f64_eq(as_number(a).val.f, as_number(b).val.f)
    ELSE /\ a.kind = b.kind
         /\ CASE a.kind = "String" -> a.s = b.s
              [] a.kind = "Boolean" -> a.b = b.b
              [] a.kind = "Tuple" ->
                    /\ Len(a.t) = Len(b.t)
                    /\ \A k \in 1 .. Len(a.t) : Value_eq_numeric(a.t[k], b.t[k])
              [] OTHER -> TRUE

RECURSIVE Value_eq(_, _)
Value_eq(a, b) ==
    /\ a.kind = b.kind
    /\ CASE a.kind = "String" -> a.s = b.s
         [] a.kind = "Float" -> f64_eq(a.f, b.f)
         [] a.kind = "Int" -> a.i = b.i
         [] a.kind = "Boolean" -> a.b = b.b
         [] a.kind = "Tuple" ->
               /\ Len(a.t) = Len(b.t)
               /\ \A k \in 1 .. Len(a.t) : Value_eq(a.t[k], b.t[k])
         [] OTHER -> TRUE

----------------------------------------------------------------------------
(* The built-in function catalog: src/function/builtin.rs *)

\* Option::map applied to the running extremum
map_min_float(this, float) ==
    IF this.tag = "Some" THEN Some(f64_min(this.val, float)) ELSE None

map_min_int(this, int) ==
    IF this.tag = "Some" THEN Some(i64_min(this.val, int)) ELSE None

map_max_float(this, float) ==
    IF this.tag = "Some" THEN Some(f64_max(this.val, float)) ELSE None

map_max_int(this, int) ==
    IF this.tag = "Some" THEN Some(i64_max(this.val, int)) ELSE None

\* the loop of "min" over the arguments, from argument k on
RECURSIVE min_loop(_, _, _, _)
min_loop(arguments, k, min_int, min_float) ==
    IF k > Len(arguments)
    THEN [res |-> Ok(Value_Empty), int |-> min_int, float |-> min_float]
    ELSE LET argument == arguments[k]
         IN  IF argument.kind = "Float"
             THEN min_loop(arguments, k + 1, min_int,
                           map_min_float(min_float, argument.f))
             ELSE IF argument.kind = "Int"
             THEN min_loop(arguments, k + 1,
                           map_min_int(min_int, argument.i), min_float)
             ELSE [res |-> Err(expected_number(argument)),
                   int |-> min_int, float |-> min_float]

\* "min" => Function::new(|argument| ...)
builtin_min(argument) ==
    LET arguments == as_tuple(argument)
    IN  IF arguments.tag = "Err" THEN arguments
        ELSE IF f64_min_value.tag = "Panic" THEN Panic
        ELSE
        LET done == min_loop(arguments.val.t, 1, i64_min_value, f64_min_value)
            min_int == done.int
            min_float == done.float
        IN  IF done.res.tag = "Err" THEN done.res
            ELSE IF min_int.tag = "Some" /\ min_float.tag = "Some"
            THEN IF f64_lt(as_float(min_int.val), min_float.val)
                 THEN Ok(Value_Int(min_int.val))
                 ELSE Ok(Value_Float(min_float.val))
            ELSE IF min_int.tag = "Some" THEN Ok(Value_Int(min_int.val))
            ELSE IF min_float.tag = "Some" THEN Ok(Value_Float(min_float.val))
            ELSE Err(NoMinValue)

\* the loop of "max" over the arguments, from argument k on
RECURSIVE max_loop(_, _, _, _)
max_loop(arguments, k, max_int, max_float) ==
    IF k > Len(arguments)
    THEN [res |-> Ok(Value_Empty), int |-> max_int, float |-> max_float]
    ELSE LET argument == arguments[k]
         IN  IF argument.kind = "Float"
             THEN max_loop(arguments, k + 1, max_int,
                           map_max_float(max_float, argument.f))
             ELSE IF argument.kind = "Int"
             THEN max_loop(arguments, k + 1,
                           map_max_int(max_int, argument.i), max_float)
             ELSE [res |-> Err(expected_number(argument)),
                   int |-> max_int, float |-> max_float]

\* "max" => Function::new(|argument| ...): both running maxima start from
\* the types' min_value()
builtin_max(argument) ==
    LET arguments == as_tuple(argument)
    IN  IF arguments.tag = "Err" THEN arguments
        ELSE IF f64_min_value.tag = "Panic" THEN Panic
        ELSE
        LET done == max_loop(arguments.val.t, 1, i64_min_value, f64_min_value)
            max_int == done.int
            max_float == done.float
        IN  IF done.res.tag = "Err" THEN done.res
            ELSE IF max_int.tag = "Some" /\ max_float.tag = "Some"
            THEN IF f64_gt(as_float(max_int.val), max_float.val)
                 THEN Ok(Value_Int(max_int.val))
                 ELSE Ok(Value_Float(max_float.val))
            ELSE IF max_int.tag = "Some" THEN Ok(Value_Int(max_int.val))
            ELSE IF max_float.tag = "Some" THEN Ok(Value_Float(max_float.val))
            ELSE Err(NoMinValue)

\* the index of the branch that "if" returns
result_index_swapped(condition) == IF condition THEN 2 ELSE 1

result_index(condition) == IF condition THEN 1 ELSE 2

\* Vec::swap_remove(index): the element removed, at the 0-based index
swap_remove(arguments, index) == arguments[index + 1]

\* "if" => Function::new(|argument| ...)
builtin_if(argument) ==
    LET arguments == as_fixed_len_tuple(argument, 3)
    IN  IF arguments.tag = "Err" THEN arguments
        ELSE LET condition == as_boolean(arguments.val.t[1])
             IN  IF condition.tag = "Err" THEN condition
                 ELSE Ok(swap_remove(arguments.val.t, result_index(condition.val.b)))

\* "len" restricted to Strings
builtin_len_of_strings(argument) ==
    IF as_string(argument).tag = "Ok"
    THEN Ok(Value_Int(from_usize_lossy(Len(as_string(argument).val.s))))
    ELSE Err(type_error(argument, <<"String", "Tuple">>))

\* "len" => Function::new(|argument| ...)
builtin_len(argument) ==
    IF as_string(argument).tag = "Ok"
    THEN Ok(Value_Int(from_usize_lossy(Len(as_string(argument).val.s))))
    ELSE IF as_tuple(argument).tag = "Ok"
    THEN Ok(Value_Int(from_usize_lossy(Len(as_tuple(argument).val.t))))
    ELSE Err(type_error(argument, <<"String", "Tuple">>))

\* the methods of Integer that int_function!(func, 2) is instantiated with
IntFunctions == {"bitand", "bitor", "bitxor", "shl", "shr"}

int_func(func, a, b) ==
    CASE func = "bitand" -> Some(bitand(a, b))
      [] func = "bitor" -> Some(bitor(a, b))
      [] func = "bitxor" -> Some(bitxor(a, b))
      [] func = "shl" -> shl(a, b)
      [] func = "shr" -> shr(a, b)

\* int_function!(func, 2)
int_function_2(func, argument) ==
    LET tuple == as_fixed_len_tuple(argument, 2)
    IN  IF tuple.tag = "Err" THEN tuple
        ELSE LET a == as_int(tuple.val.t[1])
                 b == as_int(tuple.val.t[2])
             IN  IF a.tag = "Err" THEN a
                 ELSE IF b.tag = "Err" THEN b
                 ELSE IF int_func(func, a.val.i, b.val.i).tag = "Panic" THEN Panic
                 ELSE Ok(Value_Int(int_func(func, a.val.i, b.val.i).val))

\* the methods of Float that simple_math!(func, 2) is instantiated with
MathFunctions == {"math::log", "math::pow", "math::atan2", "math::hypot"}

\* what the methods of f64 behind simple_math!(func, 2) can return: the
\* arithmetic of the standard library is outside the model, so the result
\* is any float
MathResults == {NaN, Fin(0), Fin(3), NEG_INFINITY, INFINITY}

\* simple_math!(func, 2): the results the call can have
simple_math_2(func, argument) ==
    LET tuple == as_fixed_len_tuple(argument, 2)
    IN  IF tuple.tag = "Err" THEN {tuple}
        ELSE LET a == as_number(tuple.val.t[1])
                 b == as_number(tuple.val.t[2])
             IN  IF a.tag = "Err" THEN {a}
                 ELSE IF b.tag = "Err" THEN {b}
                 ELSE {Ok(Value_Float(r)) : r \in MathResults}

\* indexing a Vec: the element, or a panic when the index is out of bounds
index(arguments, i) ==
    IF i < Len(arguments) THEN Ok(arguments[i + 1]) ELSE Panic

\* what the regex library can answer for a pattern and a subject: the
\* pattern does not compile, or it compiles and matches or does not
RegexAnswers == {"invalid", "match", "no match"}

\* re.replace_all(subject, repl): the subject when nothing matches; the
\* library's substitution, which is outside the model, is taken to be the
\* replacement of the whole subject
replace_all(answer, subject, repl) == IF answer = "match" THEN repl ELSE subject

\* "str::regex_matches" => Function::new(|argument| ...), for an answer of
\* the regex library
regex_matches(argument, answer) ==
    LET arguments == as_tuple(argument)
    IN  IF arguments.tag = "Err" THEN arguments
        ELSE IF index(arguments.val.t, 0).tag = "Panic" THEN Panic
        ELSE LET subject == as_string(index(arguments.val.t, 0).val)
             IN  IF subject.tag = "Err" THEN subject
        ELSE IF index(arguments.val.t, 1).tag = "Panic" THEN Panic
        ELSE LET re_str == as_string(index(arguments.val.t, 1).val)
             IN  IF re_str.tag = "Err" THEN re_str
        ELSE IF answer = "invalid" THEN Err(invalid_regex(re_str.val.s))
        ELSE Ok(Value_Boolean(answer = "match"))

\* "str::regex_replace" => Function::new(|argument| ...)
regex_replace(argument, answer) ==
    LET arguments == as_tuple(argument)
    IN  IF arguments.tag = "Err" THEN arguments
        ELSE IF index(arguments.val.t, 0).tag = "Panic" THEN Panic
        ELSE LET subject == as_string(index(arguments.val.t, 0).val)
             IN  IF subject.tag = "Err" THEN subject
        ELSE IF index(arguments.val.t, 1).tag = "Panic" THEN Panic
        ELSE LET re_str == as_string(index(arguments.val.t, 1).val)
             IN  IF re_str.tag = "Err" THEN re_str
        ELSE IF index(arguments.val.t, 2).tag = "Panic" THEN Panic
        ELSE LET repl == as_string(index(arguments.val.t, 2).val)
             IN  IF repl.tag = "Err" THEN repl
        ELSE IF answer = "invalid" THEN Err(invalid_regex(re_str.val.s))
        ELSE Ok(Value_String(replace_all(answer, subject.val.s, repl.val.s)))

RegexFunctions == {"str::regex_matches", "str::regex_replace"}

\* the finite floats of the grid
FiniteFloats == {Fin(n) : n \in -F64_MAX_N .. F64_MAX_N}

\* Uniform::new_inclusive(low, high) and Distribution::sample: the rand
\* library is outside the model; it either rejects the range with a panic
\* or returns a sample between the two bounds
Uniform_sample(low, high) ==
    {[res |-> Panic, sampled |-> FALSE]}
        \cup {[res |-> Ok(Value_Float(r)), sampled |-> TRUE] :
                 r \in {x \in FiniteFloats : ~f64_lt(x, low) /\ ~f64_gt(x, high)}}

\* "random" without the check of its argument
builtin_random_of_anything(argument) ==
    IF f64_min_value.tag = "Panic" \/ f64_max_value.tag = "Panic"
    THEN {[res |-> Panic, sampled |-> FALSE]}
    ELSE Uniform_sample(f64_min_value.val, f64_max_value.val)

\* "random" => Function::new(|argument| ...): the results the call can have,
\* each with whether the generator has been sampled
builtin_random(argument) ==
    IF as_empty(argument).tag = "Err"
    THEN {[res |-> as_empty(argument), sampled |-> FALSE]}
    ELSE IF f64_min_value.tag = "Panic" \/ f64_max_value.tag = "Panic"
    THEN {[res |-> Panic, sampled |-> FALSE]}
    ELSE IF f64_min_value.tag = "None"
    THEN {[res |-> Err(NoMinValue), sampled |-> FALSE]}
    ELSE IF f64_max_value.tag = "None"
    THEN {[res |-> Err(NoMaxValue), sampled |-> FALSE]}
    ELSE Uniform_sample(f64_min_value.val, f64_max_value.val)

\* the functions of the catalog whose result is a function of the argument
\* and of the build
DirectNames == {"min", "max", "if", "len"} \cup IntFunctions

\* the names of the catalog that are modelled
BuiltinNames == DirectNames \cup MathFunctions \cup RegexFunctions \cup {"random"}

\* builtin_function(identifier): Some(function) or None
builtin_function(identifier) ==
    IF identifier \in BuiltinNames THEN Some(identifier) ELSE None

\* Function::call on a function of the catalog
call_builtin(identifier, argument) ==
    CASE identifier = "min" -> builtin_min(argument)
      [] identifier = "max" -> builtin_max(argument)
      [] identifier = "if" -> builtin_if(argument)
      [] identifier = "len" -> builtin_len(argument)
      [] identifier \in IntFunctions -> int_function_2(identifier, argument)

\* Function::call on a function of the catalog that calls into a library:
\* the results the call can have
call_library(identifier, argument) ==
    CASE identifier \in MathFunctions ->
             {[res |-> r, sampled |-> FALSE] : r \in simple_math_2(identifier, argument)}
      [] identifier = "str::regex_matches" ->
             {[res |-> regex_matches(argument, answer), sampled |-> FALSE] :
                 answer \in RegexAnswers}
      [] identifier = "str::regex_replace" ->
             {[res |-> regex_replace(argument, answer), sampled |-> FALSE] :
                 answer \in RegexAnswers}
      [] identifier = "random" -> builtin_random(argument)

\* A user-defined function of the documentation example: it returns a clone
\* of its argument.  Function::call applies the stored closure.
UserFunctions == {"id"}

call_user(function, argument) == Ok(argument)

----------------------------------------------------------------------------
(* f64 arithmetic used by the mixed-kind operators (the std operators the   *)
(* Float trait requires), on the grid of half units                         *)

f64_mul(a, b) ==
    IF a.nan \/ b.nan THEN NaN
    ELSE IF (f64_is_infinite(a) /\ b.n = 0) \/ (f64_is_infinite(b) /\ a.n = 0)
    THEN NaN
    ELSE IF f64_is_infinite(a) \/ f64_is_infinite(b)
    THEN Fin(Sign(a.n) * Sign(b.n) * INF_N)
    ELSE f64_round(TruncDiv(a.n * b.n, 2))

f64_div(a, b) ==
    IF a.nan \/ b.nan THEN NaN
    ELSE IF f64_is_infinite(a) /\ f64_is_infinite(b) THEN NaN
    ELSE IF b.n = 0
    THEN IF a.n = 0 THEN NaN ELSE Fin(Sign(a.n) * INF_N)
    ELSE IF f64_is_infinite(a) THEN Fin(Sign(a.n) * Sign(b.n) * INF_N)
    ELSE IF f64_is_infinite(b) THEN Fin(0)
    ELSE f64_round(TruncDiv(2 * a.n, b.n))

f64_rem(a, b) ==
    IF a.nan \/ b.nan \/ f64_is_infinite(a) \/ b.n = 0 THEN NaN
    ELSE IF f64_is_infinite(b) THEN a
    ELSE Fin(a.n - b.n * TruncDiv(a.n, b.n))

----------------------------------------------------------------------------
(* The context: variable and function bindings (spec section 4.5)           *)

Names == {"a", "b"}

FunctionNames == {"min", "max", "id", "undefined_fn"}

Unbound == [bound |-> FALSE, val |-> Value_Empty]

Bound(v) == [bound |-> TRUE, val |-> v]

EmptyContext ==
    [variables |-> [x \in Names |-> Unbound],
     functions |-> [g \in FunctionNames |-> ""]]

get_value(ctx, identifier) == ctx.variables[identifier]

\* set creates or overwrites the binding and leaves every other one alone
set_value(ctx, identifier, value) ==
    [ctx EXCEPT !.variables[identifier] = Bound(value)]

get_function(ctx, identifier) == ctx.functions[identifier]

----------------------------------------------------------------------------
(* The operator tree and its evaluator (spec sections 3, 4.2 and 4.3)       *)

Node(op, identifier, value, children) ==
    [op |-> op, identifier |-> identifier, value |-> value, children |-> children]

Const(v) == Node("Const", "", v, <<>>)

VariableIdentifierRead(x) == Node("VariableIdentifierRead", x, Value_Empty, <<>>)

VariableIdentifierWrite(x) == Node("VariableIdentifierWrite", x, Value_Empty, <<>>)

Unary(op, e) == Node(op, "", Value_Empty, <<e>>)

Binary(op, l, r) == Node(op, "", Value_Empty, <<l, r>>)

Assign(x, e) == Binary("Assign", VariableIdentifierWrite(x), e)

Chain(children) == Node("Chain", "", Value_Empty, children)

TupleNode(children) == Node("Tuple", "", Value_Empty, children)

FunctionIdentifier(g, argument) == Node("FunctionIdentifier", g, Value_Empty, <<argument>>)

ArithmeticError(op, a, b) ==
    EvalexprError("ArithmeticError", Value_Tuple(<<a, b>>), 0)

VariableIdentifierNotFound(x) ==
    EvalexprError("VariableIdentifierNotFound", Value_String(x), 0)

FunctionIdentifierNotFound(g) ==
    EvalexprError("FunctionIdentifierNotFound", Value_String(g), 0)

ExpectedIdentifier ==
    EvalexprError("ExpectedIdentifier", Value_Empty, 0)

\* a checked integer operation: None is reported as an arithmetic error
int_result(op, a, b, checked) ==
    IF checked.tag = "Some" THEN Ok(Value_Int(checked.val))
    ELSE Err(ArithmeticError(op, a, b))

\* binary arithmetic: two Ints stay Int and use the checked operation, any
\* other pair of numbers is coerced to Float
arithmetic(op, a, b) ==
    IF a.kind = "Int" /\ b.kind = "Int"
    THEN int_result(op, a, b,
             CASE op = "Add" -> checked_add(a.i, b.i)
               [] op = "Sub" -> checked_sub(a.i, b.i)
               [] op = "Mul" -> checked_mul(a.i, b.i)
               [] op = "Div" -> checked_div(a.i, b.i)
               [] op = "Mod" -> checked_rem(a.i, b.i))
    ELSE IF ~is_number(a) THEN Err(expected_number(a))
    ELSE IF ~is_number(b) THEN Err(expected_number(b))
    ELSE LET x == as_number(a).val.f
             y == as_number(b).val.f
         IN  Ok(Value_Float(
                 CASE op = "Add" -> f64_add(x, y)
                   [] op = "Sub" -> f64_sub(x, y)
                   [] op = "Mul" -> f64_mul(x, y)
                   [] op = "Div" -> f64_div(x, y)
                   [] op = "Mod" -> f64_rem(x, y)))

ArithmeticOps == {"Add", "Sub", "Mul", "Div", "Mod"}

\* the operator of a node applied to the values of its children
Operator_eval(op, arguments) ==
    CASE op \in ArithmeticOps -> arithmetic(op, arguments[1], arguments[2])
      [] op = "Neg" ->
            LET a == arguments[1]
            IN  IF a.kind = "Int"
                THEN int_result(op, a, a, checked_neg(a.i))
                ELSE IF a.kind = "Float" THEN Ok(Value_Float(f64_neg(a.f)))
                ELSE Err(expected_number(a))
      [] op = "Eq" -> Ok(Value_Boolean(Value_eq(arguments[1], arguments[2])))
      [] op = "Neq" -> Ok(Value_Boolean(~Value_eq(arguments[1], arguments[2])))
      [] op = "Not" ->
            LET a == as_boolean(arguments[1])
            IN  IF a.tag = "Ok" THEN Ok(Value_Boolean(~a.val.b)) ELSE a
      [] op = "Tuple" -> Ok(Value_Tuple(arguments))

\* the outcome of evaluating a node: the context as left behind, the result
\* and the assignments executed, in order
Outcome(ctx, res, log) == [ctx |-> ctx, res |-> res, log |-> log]

\* a failure (or a panic) of a subexpression ends the evaluation
propagates_never(res) == FALSE

propagates(res) == res.tag # "Ok"

\* `&&` with a false left operand and `||` with a true one do not evaluate
\* the right operand
short_circuits_never(op, left) == FALSE

short_circuits(op, left) ==
    (op = "And" /\ ~left) \/ (op = "Or" /\ left)

\* the value of an assignment expression is the written value
assign_result_empty(value) == Value_Empty

assign_result(value) == value

\* the value of a sequence is the value of its last child
chain_value_first(values) == values[1]

chain_value(values) == values[Len(values)]

\* function application that consults the built-in catalog first
call_function_builtin_first(ctx, identifier, argument) ==
    IF builtin_function(identifier).tag = "Some"
    THEN call_builtin(identifier, argument)
    ELSE IF get_function(ctx, identifier) # ""
    THEN call_user(get_function(ctx, identifier), argument)
    ELSE Err(FunctionIdentifierNotFound(identifier))

\* function application: the context's function bindings first, then the
\* built-in catalog
call_function(ctx, identifier, argument) ==
    IF get_function(ctx, identifier) # ""
    THEN call_user(get_function(ctx, identifier), argument)
    ELSE IF builtin_function(identifier).tag = "Some"
    THEN call_builtin(identifier, argument)
    ELSE Err(FunctionIdentifierNotFound(identifier))

RECURSIVE eval_node(_, _)
RECURSIVE eval_children(_, _, _, _, _)

\* the children from child k on, left to right, each against the context the
\* previous one left behind
eval_children(children, k, ctx, values, log) ==
    IF k > Len(children)
    THEN [ctx |-> ctx, res |-> Ok(Value_Empty), values |-> values, log |-> log]
    ELSE LET r == eval_node(children[k], ctx)
         IN  IF propagates(r.res)
             THEN [ctx |-> r.ctx, res |-> r.res, values |-> values,
                   log |-> log \o r.log]
             ELSE eval_children(children, k + 1, r.ctx,
                                Append(values, r.res.val), log \o r.log)

eval_node(node, ctx) ==
    CASE node.op = "Const" -> Outcome(ctx, Ok(node.value), <<>>)
      [] node.op = "VariableIdentifierRead" ->
            LET binding == get_value(ctx, node.identifier)
            IN  IF binding.bound
                THEN Outcome(ctx, Ok(binding.val), <<>>)
                ELSE Outcome(ctx, Err(VariableIdentifierNotFound(node.identifier)), <<>>)
      [] node.op \in {"And", "Or"} ->
            LET l == eval_node(node.children[1], ctx)
                lb == as_boolean(l.res.val)
            IN  IF propagates(l.res) THEN l
                ELSE IF lb.tag = "Err" THEN Outcome(l.ctx, lb, l.log)
                ELSE IF short_circuits(node.op, lb.val.b)
                THEN Outcome(l.ctx, Ok(Value_Boolean(lb.val.b)), l.log)
                ELSE
                LET r == eval_node(node.children[2], l.ctx)
                    rb == as_boolean(r.res.val)
                IN  IF propagates(r.res)
                    THEN Outcome(r.ctx, r.res, l.log \o r.log)
                    ELSE IF rb.tag = "Err"
                    THEN Outcome(r.ctx, rb, l.log \o r.log)
                    ELSE Outcome(r.ctx,
                                 Ok(Value_Boolean(IF node.op = "And"
                                                  THEN lb.val.b /\ rb.val.b
                                                  ELSE lb.val.b \/ rb.val.b)),
                                 l.log \o r.log)
      [] node.op = "Assign" ->
            IF node.children[1].op # "VariableIdentifierWrite"
            THEN Outcome(ctx, Err(ExpectedIdentifier), <<>>)
            ELSE
            LET target == node.children[1].identifier
                r == eval_node(node.children[2], ctx)
            IN  IF propagates(r.res) THEN r
                ELSE Outcome(set_value(r.ctx, target, r.res.val),
                             Ok(assign_result(r.res.val)),
                             Append(r.log, [name |-> target, val |-> r.res.val]))
      [] node.op = "Chain" ->
            LET c == eval_children(node.children, 1, ctx, <<>>, <<>>)
            IN  IF propagates(c.res) THEN Outcome(c.ctx, c.res, c.log)
                ELSE Outcome(c.ctx, Ok(chain_value(c.values)), c.log)
      [] node.op = "FunctionIdentifier" ->
            LET r == eval_node(node.children[1], ctx)
            IN  IF propagates(r.res) THEN r
                ELSE Outcome(r.ctx,
                             call_function(r.ctx, node.identifier, r.res.val),
                             r.log)
      [] OTHER ->
            LET c == eval_children(node.children, 1, ctx, <<>>, <<>>)
            IN  IF propagates(c.res) THEN Outcome(c.ctx, c.res, c.log)
                ELSE Outcome(c.ctx, Operator_eval(node.op, c.values), c.log)

----------------------------------------------------------------------------
(* Inputs *)

Builds == {"debug", "release"}

I(n) == Const(Value_Int(n))

F(n) == Const(Value_Float(Fin(n)))

B(b) == Const(Value_Boolean(b))

RECURSIVE SeqsUpTo(_, _)
\* the sequences over S of length at most n
SeqsUpTo(S, n) ==
    IF n = 0 THEN {<<>>}
    ELSE LET shorter == SeqsUpTo(S, n - 1)
         IN  shorter \cup {Append(q, x) : q \in shorter, x \in S}

DivByZero == Binary("Div", I(1), I(0))

\* operands of the binary expressions: 1, MAX, 1.0, 1.5, true and a variable
BinaryAtoms ==
    {I(1), I(I64_MAX), F(2), F(3), B(TRUE), VariableIdentifierRead("a")}

BinaryTrees ==
    {Binary(op, x, y) : op \in {"Add", "Div", "Eq"}, x \in BinaryAtoms, y \in BinaryAtoms}

\* the children of the sequences of literals: 1, 2, 3
LiteralStatements == {I(1), I(2), I(3)}

\* the children of the sequences with effects: 3, a = 1, a = a + 1, a, 1 / 0
EffectStatements ==
    {I(3), Assign("a", I(1)),
     Assign("a", Binary("Add", VariableIdentifierRead("a"), I(1))),
     VariableIdentifierRead("a"), DivByZero}

ChainTrees ==
    {Chain(q) : q \in (SeqsUpTo(LiteralStatements, MaxChain)
                          \cup SeqsUpTo(EffectStatements, MaxChain)) \ {<<>>}}

LogicLefts ==
    {B(TRUE), B(FALSE), I(1), VariableIdentifierRead("b"), DivByZero,
     Assign("b", B(TRUE)),
     Binary("Eq", VariableIdentifierRead("a"), I(1))}

LogicRights ==
    {B(TRUE), B(FALSE), Assign("a", I(1)), Assign("b", B(TRUE)),
     Binary("Eq", DivByZero, I(0)), VariableIdentifierRead("b")}

LogicTrees ==
    {Binary(op, l, r) : op \in {"And", "Or"}, l \in LogicLefts, r \in LogicRights}

AssignTrees ==
    {Assign("a", e) : e \in {I(5), VariableIdentifierRead("a"),
                             Binary("Add", VariableIdentifierRead("a"), I(1)),
                             DivByZero, Binary("Add", I(I64_MAX), I(1))}}
    \cup {Assign("b", e) : e \in {B(TRUE), DivByZero,
                                   Binary("Eq", VariableIdentifierRead("a"), I(1))}}
    \cup {Binary("Assign", I(1), I(2))}

\* an assignment before, and after, a failing operand
FailureTrees ==
    {Binary("Add", Assign("a", I(2)), DivByZero),
     Binary("Add", DivByZero, Assign("a", I(2))),
     TupleNode(<<Assign("b", B(TRUE)), VariableIdentifierRead("a"), Assign("a", I(3))>>),
     Unary("Neg", I(I64_MIN)), Unary("Neg", Assign("a", I(2))), Unary("Not", I(1))}

CallArguments ==
    {Const(Value_Empty), I(2), TupleNode(<<I(1), F(5), I(2)>>),
     TupleNode(<<Assign("a", I(2)), DivByZero>>)}

CallTrees ==
    {FunctionIdentifier(g, e) : g \in FunctionNames, e \in CallArguments}

Trees ==
    BinaryTrees \cup ChainTrees \cup LogicTrees \cup AssignTrees
        \cup FailureTrees \cup CallTrees

\* the host has bound the function of the documentation example
InitContext == [EmptyContext EXCEPT !.functions["id"] = "id"]

----------------------------------------------------------------------------
(* The iterator over the nodes of a tree: src/tree/iter.rs.  A reference to *)
(* a node is the path from the root of the tree to the node: the indices of *)
(* the children taken, from 0.                                              *)

RECURSIVE NodeAt(_, _)
\* the node a reference points to
NodeAt(root, path) ==
    IF path = <<>> THEN root
    ELSE NodeAt(root.children[Head(path) + 1], Tail(path))

\* node.children.iter(): a slice iterator over the children of the node at
\* the path, with the index of the child it returns next
children_iter(path) == [path |-> path, next |-> 0]

\* NodeIter::new(node)
NodeIter_new(node) == [stack |-> <<children_iter(<<>>)>>]

\* the loop of NodeIter::next with the stack used as a queue
RECURSIVE NodeIter_next_from_first(_, _)
NodeIter_next_from_first(root, stack) ==
    IF stack = <<>> THEN [stack |-> stack, tag |-> "None", item |-> <<>>]
    ELSE LET last == stack[1]
         IN  IF last.next < Len(NodeAt(root, last.path).children)
             THEN LET result == Append(last.path, last.next)
                  IN  [stack |-> Append([stack EXCEPT ![1].next = last.next + 1],
                                        children_iter(result)),
                       tag |-> "Some", item |-> result]
             ELSE NodeIter_next_from_first(root, Tail(stack))

\* the loop of NodeIter::next returning None as soon as the iterator on top
\* of the stack is at its end, without discarding it
RECURSIVE NodeIter_next_early_return(_, _)
NodeIter_next_early_return(root, stack) ==
    IF stack = <<>> THEN [stack |-> stack, tag |-> "None", item |-> <<>>]
    ELSE LET last == stack[Len(stack)]
         IN  IF last.next < Len(NodeAt(root, last.path).children)
             THEN LET result == Append(last.path, last.next)
                  IN  [stack |-> Append([stack EXCEPT ![Len(stack)].next = last.next + 1],
                                        children_iter(result)),
                       tag |-> "Some", item |-> result]
             ELSE [stack |-> stack, tag |-> "None", item |-> <<>>]

\* NodeIter::next: the loop, up to its return; the stack it leaves and the
\* Option it returns
RECURSIVE NodeIter_next(_, _)
NodeIter_next(root, stack) ==
    IF stack = <<>> THEN [stack |-> stack, tag |-> "None", item |-> <<>>]
    ELSE LET last == stack[Len(stack)]
         IN  IF last.next < Len(NodeAt(root, last.path).children)
             THEN LET result == Append(last.path, last.next)
                  IN  [stack |-> Append([stack EXCEPT ![Len(stack)].next = last.next + 1],
                                        children_iter(result)),
                       tag |-> "Some", item |-> result]
             ELSE NodeIter_next(root, SubSeq(stack, 1, Len(stack) - 1))

\* the iterator with the tree it borrows, the references it has returned
\* and the Option its last call returned
Iterator(root, stack, yielded, returned) ==
    [root |-> root, stack |-> stack, yielded |-> yielded, returned |-> returned]

\* no iterator has been made
NoIter == Iterator(Const(Value_Empty), <<>>, <<>>, "")

\* a node without children
Leaf == Const(Value_Int(1))

\* trees of at most two levels
ShallowTrees ==
    {Leaf} \cup {TupleNode(q) : q \in SeqsUpTo({Leaf}, MaxChildren)}

\* trees of at most three levels, and two trees of four
IterTrees ==
    ShallowTrees
        \cup {TupleNode(q) : q \in SeqsUpTo(ShallowTrees, MaxChildren)}
        \cup {Unary("Neg", Unary("Neg", Unary("Neg", Leaf))),
              Binary("Add", Binary("Add", Binary("Add", Leaf, Leaf), Leaf),
                     Binary("Add", Leaf, Leaf))}

----------------------------------------------------------------------------
(* The state machine: calls of the evaluator against one context *)

Record(call, args, tree, ctx0, res, log) ==
    [call |-> call, args |-> args, tree |-> tree, ctx0 |-> ctx0,
     res |-> res, log |-> log]

Idle == Record("idle", <<>>, Const(Value_Empty), EmptyContext, Ok(Value_Empty), <<>>)

Init ==
    /\ build \in Builds
    /\ context = InitContext
    /\ out = Idle
    /\ iter = NoIter

\* eval_with_context_mut: the tree evaluated against the context
Evaluate(tree) ==
    /\ out = Idle
    /\ LET r == eval_node(tree, context)
       IN  /\ context' = r.ctx
           /\ out' = Record("evaluate", <<>>, tree, context, r.res, r.log)
    /\ UNCHANGED <<build, iter>>

\* the caller takes the result; the context lives on for the next call
Return ==
    /\ out # Idle
    /\ out' = Idle
    /\ UNCHANGED <<build, context, iter>>

\* the inputs of a call: a call starts only when the previous result has been
\* taken, so no input is drawn before that
WhenIdle(S) == IF out = Idle THEN S ELSE {}

Next ==
    \/ \E tree \in WhenIdle(Trees) : Evaluate(tree)
    \/ Return

Spec == Init /\ [][Next]_vars

\* the names a host binds functions under: names of the catalog and a name
\* of its own
HostFunctionNames == {"min", "max", "id"}

\* the contexts a host can hand to the evaluator: each of the names bound to
\* the function of the documentation example, or not bound
HostContexts ==
    {[EmptyContext EXCEPT !.functions =
          [g \in FunctionNames |-> IF g \in bound THEN "id" ELSE ""]] :
        bound \in SUBSET HostFunctionNames}

InitResolve ==
    /\ build \in Builds
    /\ context \in HostContexts
    /\ out = Idle
    /\ iter = NoIter

\* function calls evaluated against the contexts of the host
NextResolve ==
    \/ \E tree \in WhenIdle(CallTrees) : Evaluate(tree)
    \/ Return

SpecResolve == InitResolve /\ [][NextResolve]_vars

\* Node::iter on the root of a tree
Iter(tree) ==
    /\ iter = NoIter
    /\ iter' = Iterator(tree, NodeIter_new(tree).stack, <<>>, "")
    /\ UNCHANGED <<build, context, out>>

\* Iterator::next on the iterator
IterNext ==
    /\ iter # NoIter
    /\ LET r == NodeIter_next(iter.root, iter.stack)
       IN  iter' = Iterator(iter.root, r.stack,
                            IF r.tag = "Some" THEN Append(iter.yielded, r.item)
                            ELSE iter.yielded,
                            r.tag)
    /\ UNCHANGED <<build, context, out>>

NextIter ==
    \/ \E tree \in IF iter = NoIter THEN IterTrees ELSE {} : Iter(tree)
    \/ IterNext

SpecIter == Init /\ [][NextIter]_vars

\* the caller of the iterator keeps calling next
SpecIterFair == SpecIter /\ WF_vars(IterNext)

----------------------------------------------------------------------------
(* Properties of the evaluator, checked under Spec *)

Evaluated == out.call = "evaluate"

\* the children of a sequence evaluated one after the other, each on its own
\* and against the context its predecessor left: the outcome of the first
\* failing child, or of the last child
RECURSIVE Sequential(_, _, _, _)
Sequential(children, k, ctx, log) ==
    LET r == eval_node(children[k], ctx)
    IN  IF r.res.tag # "Ok" \/ k = Len(children)
        THEN Outcome(r.ctx, r.res, log \o r.log)
        ELSE Sequential(children, k + 1, r.ctx, log \o r.log)

\* the bindings after the assignments of a log, from the first on
RECURSIVE ApplyLog(_, _, _)
ApplyLog(ctx, log, k) ==
    IF k > Len(log) THEN ctx
    ELSE ApplyLog(set_value(ctx, log[k].name, log[k].val), log, k + 1)

\* the children a node evaluates unconditionally, in evaluation order
EvaluatedChildren(node) ==
    CASE node.op = "Assign" -> <<node.children[2]>>
      [] node.op \in {"And", "Or"} -> <<node.children[1]>>
      [] OTHER -> node.children

\* C2: when the left operand of `&&` evaluates to false, or the left operand
\* of `||` to true, the result is the left operand's Boolean value, the
\* context is exactly the one the left operand left behind, no assignment of
\* the right operand is executed and no error of it is reported.
C2_ShortCircuit ==
    (Evaluated /\ out.tree.op \in {"And", "Or"}) =>
        LET l == eval_node(out.tree.children[1], out.ctx0)
        IN  (/\ l.res.tag = "Ok"
             /\ l.res.val.kind = "Boolean"
             /\ l.res.val.b = (out.tree.op = "Or"))
            => /\ out.res = Ok(Value_Boolean(l.res.val.b))
               /\ context = l.ctx
               /\ out.log = l.log

\* `false && (1/0 == 0)` has evaluated to false
C2_Witness ==
    /\ Evaluated
    /\ out.tree = Binary("And", B(FALSE), Binary("Eq", DivByZero, I(0)))
    /\ out.res = Ok(Value_Boolean(FALSE))

\* C3: when a subexpression fails, the evaluation returns the error of the
\* first failing one unchanged, the assignments executed before it stay
\* bound in the context, and no assignment after it is executed.
C3_FirstFailureAborts ==
    Evaluated =>
        /\ out.res.tag = "Err" => context = ApplyLog(out.ctx0, out.log, 1)
        /\ EvaluatedChildren(out.tree) # <<>> =>
              LET first == Sequential(EvaluatedChildren(out.tree), 1, out.ctx0, <<>>)
              IN  first.res.tag = "Err"
                  => /\ out.res = first.res
                     /\ context = first.ctx
                     /\ out.log = first.log

IncrementA == Assign("a", Binary("Add", VariableIdentifierRead("a"), I(1)))

\* `a = a + 1; 1 / 0; a = a + 1` has failed with a bound to 1 before the
\* call: a is bound to 2 afterwards
C3_Witness ==
    /\ Evaluated
    /\ out.tree = Chain(<<IncrementA, DivByZero, IncrementA>>)
    /\ out.ctx0.variables["a"] = Bound(Value_Int(1))
    /\ out.res.tag = "Err"
    /\ context.variables["a"] = Bound(Value_Int(2))

\* C4: `x = e` binds x to the value of e, creating or overwriting the
\* binding, leaves every other binding as e left it, and its own value is
\* the written value.
C4_AssignmentIsExpression ==
    (/\ Evaluated
     /\ out.tree.op = "Assign"
     /\ out.tree.children[1].op = "VariableIdentifierWrite") =>
        LET x == out.tree.children[1].identifier
            e == eval_node(out.tree.children[2], out.ctx0)
        IN  e.res.tag = "Ok"
            => /\ out.res = Ok(e.res.val)
               /\ context.variables[x] = Bound(e.res.val)
               /\ \A y \in Names \ {x} : context.variables[y] = e.ctx.variables[y]
               /\ context.functions = e.ctx.functions

\* `a = 5` against a context without a has returned Int(5) and bound a to 5
C4_Witness ==
    /\ Evaluated
    /\ out.tree = Assign("a", I(5))
    /\ ~out.ctx0.variables["a"].bound
    /\ out.res = Ok(Value_Int(5))
    /\ context.variables["a"] = Bound(Value_Int(5))

\* C5: a sequence evaluates its children in order against the same context,
\* each child seeing the bindings of the ones before it, and its value is
\* the value of its last child.
C5_SequenceYieldsLast ==
    (Evaluated /\ out.tree.op = "Chain") =>
        LET all == Sequential(out.tree.children, 1, out.ctx0, <<>>)
        IN  all.res.tag = "Ok"
            => /\ out.res = all.res
               /\ context = all.ctx
               /\ out.log = all.log

\* `a = 1; a = a + 1; a` has evaluated to 2
C5_Witness ==
    /\ Evaluated
    /\ out.tree = Chain(<<Assign("a", I(1)), IncrementA, VariableIdentifierRead("a")>>)
    /\ out.res = Ok(Value_Int(2))
    /\ context.variables["a"] = Bound(Value_Int(2))

----------------------------------------------------------------------------
(* The state machine of single calls: an operator applied to operand        *)
(* values, an accessor or the equality of Value, a built-in function        *)

\* operands of the operators: every Int, a Float and a Boolean
Operands ==
    {Value_Int(n) : n \in IntRange} \cup {Value_Float(Fin(3)), Value_Boolean(TRUE)}

\* values of every variant, a NaN among them
ValueSamples ==
    {Value_String("a"), Value_String(""), Value_Int(0), Value_Int(1),
     Value_Float(Fin(0)), Value_Float(Fin(2)), Value_Float(NaN),
     Value_Boolean(TRUE), Value_Boolean(FALSE), Value_Empty,
     Value_Tuple(<<>>), Value_Tuple(<<Value_Int(1)>>),
     Value_Tuple(<<Value_Float(Fin(2))>>),
     Value_Tuple(<<Value_Int(1), Value_Int(1)>>),
     Value_Tuple(<<Value_Int(1), Value_Float(NaN)>>)}

\* elements of the argument tuples of min and max: Ints, Floats inside and
\* below the integer range, and a value that is no number
ArgumentSamples ==
    {Value_Int(I64_MIN), Value_Int(1), Value_Int(2),
     Value_Float(Fin(2)), Value_Float(Fin(5)),
     Value_Float(Fin(2 * I64_MIN - 2)), Value_Float(Fin(2 * I64_MIN - 6)),
     Value_Boolean(TRUE)}

Arguments ==
    {Value_Empty, Value_Int(2)}
        \cup {Value_Tuple(q) : q \in SeqsUpTo(ArgumentSamples, MaxTupleLen)}

\* elements of the argument tuples of "if": conditions, branches and a
\* value that is no condition
IfSamples ==
    {Value_Boolean(TRUE), Value_Boolean(FALSE), Value_Int(1), Value_String("a")}

IfArguments ==
    {Value_Empty, Value_Boolean(TRUE)}
        \cup {Value_Tuple(q) : q \in SeqsUpTo(IfSamples, MaxTupleLen + 1)}

LenArguments ==
    ValueSamples
        \cup {Value_String("ab"), Value_String("abc"),
              Value_Tuple(<<Value_String("ab"), Value_Empty, Value_Tuple(<<>>)>>)}

\* arguments of the functions of two Ints: every pair of Ints, and
\* arguments of another length or kind
IntFunctionArguments ==
    {Value_Tuple(<<Value_Int(a), Value_Int(b)>>) : a \in IntRange, b \in IntRange}
        \cup {Value_Empty, Value_Int(1), Value_Tuple(<<>>),
              Value_Tuple(<<Value_Int(1)>>),
              Value_Tuple(<<Value_Int(1), Value_Int(2), Value_Int(3)>>),
              Value_Tuple(<<Value_Int(1), Value_Float(Fin(2))>>),
              Value_Tuple(<<Value_Boolean(TRUE), Value_Int(1)>>)}

MathSamples == {Value_Int(2), Value_Float(Fin(3)), Value_String("a")}

MathArguments ==
    {Value_Empty, Value_Float(Fin(3))}
        \cup {Value_Tuple(q) : q \in SeqsUpTo(MathSamples, MaxTupleLen)}

RegexSamples == {Value_String("a"), Value_String("("), Value_Int(1)}

RegexArguments ==
    {Value_Empty, Value_String("a")}
        \cup {Value_Tuple(q) : q \in SeqsUpTo(RegexSamples, MaxTupleLen + 1)}

\* the arguments a function of the catalog is called with
ArgumentsOf(name) ==
    CASE name \in {"min", "max"} -> Arguments
      [] name = "if" -> IfArguments
      [] name = "len" -> LenArguments
      [] name \in IntFunctions -> IntFunctionArguments
      [] name \in MathFunctions -> MathArguments
      [] name \in RegexFunctions -> RegexArguments
      [] name = "random" -> ValueSamples

Accessors ==
    {"as_string", "as_int", "as_float", "as_boolean", "as_tuple", "as_empty"}

accessor(name, v) ==
    CASE name = "as_string" -> as_string(v)
      [] name = "as_int" -> as_int(v)
      [] name = "as_float" -> as_float_value(v)
      [] name = "as_boolean" -> as_boolean(v)
      [] name = "as_tuple" -> as_tuple(v)
      [] name = "as_empty" -> as_empty(v)

CallRecord(call, args, res) ==
    Record(call, args, Const(Value_Empty), context, res, <<>>)

\* a binary arithmetic operator applied to two operand values
ApplyBinary(op, a, b) ==
    /\ out = Idle
    /\ out' = CallRecord(op, <<a, b>>, Operator_eval(op, <<a, b>>))
    /\ UNCHANGED <<build, context, iter>>

\* unary minus applied to an operand value
ApplyNeg(a) ==
    /\ out = Idle
    /\ out' = CallRecord("Neg", <<a>>, Operator_eval("Neg", <<a>>))
    /\ UNCHANGED <<build, context, iter>>

\* one of the as_* accessors of Value
CallAccessor(name, v) ==
    /\ out = Idle
    /\ out' = CallRecord(name, <<v>>, accessor(name, v))
    /\ UNCHANGED <<build, context, iter>>

\* Value's ==
CompareValues(a, b) ==
    /\ out = Idle
    /\ out' = CallRecord("eq", <<a, b>>, Ok(Value_Boolean(Value_eq(a, b))))
    /\ UNCHANGED <<build, context, iter>>

\* a function of the built-in catalog called with an argument value
CallBuiltin(name, argument) ==
    /\ out = Idle
    /\ builtin_function(name).tag = "Some"
    /\ out' = CallRecord(name, <<argument>>, call_builtin(name, argument))
    /\ UNCHANGED <<build, context, iter>>

\* the generator of random numbers, as it appears in the log of a call
thread_rng == "thread_rng"

\* a function of the built-in catalog that calls into a library, with one
\* of the results the library allows; a sample drawn from the generator is
\* logged
CallLibrary(name, argument, outcome) ==
    /\ out = Idle
    /\ builtin_function(name).tag = "Some"
    /\ out' = Record(name, <<argument>>, Const(Value_Empty), context, outcome.res,
                     IF outcome.sampled
                     THEN <<[name |-> thread_rng, val |-> outcome.res.val]>>
                     ELSE <<>>)
    /\ UNCHANGED <<build, context, iter>>

NextCall ==
    \/ \E op \in ArithmeticOps, a \in WhenIdle(Operands), b \in Operands :
           ApplyBinary(op, a, b)
    \/ \E a \in WhenIdle(Operands) : ApplyNeg(a)
    \/ \E name \in Accessors, v \in WhenIdle(ValueSamples) : CallAccessor(name, v)
    \/ \E a \in WhenIdle(ValueSamples), b \in ValueSamples : CompareValues(a, b)
    \/ \E name \in WhenIdle(DirectNames) : \E argument \in ArgumentsOf(name) :
           CallBuiltin(name, argument)
    \/ \E name \in WhenIdle(BuiltinNames \ DirectNames) :
           \E argument \in ArgumentsOf(name) :
               \E outcome \in call_library(name, argument) :
                   CallLibrary(name, argument, outcome)
    \/ Return

SpecCall == Init /\ [][NextCall]_vars

----------------------------------------------------------------------------
(* Properties of the operators, of Value and of min and max, checked under  *)
(* SpecCall                                                                 *)

IntArguments == \A k \in 1 .. Len(out.args) : out.args[k].kind = "Int"

\* the quotient of a by b truncated toward zero, characterised by its
\* remainder: smaller than the divisor and of the sign of the dividend
ExactQuotient(a, b) ==
    CHOOSE q \in -Pow2(IntBits) .. Pow2(IntBits) :
        /\ Abs(a - q * b) < Abs(b)
        /\ a - q * b = 0 \/ Sign(a - q * b) = Sign(a)

\* the mathematical result of an operator on integers
Exact(op, a, b) ==
    CASE op = "Add" -> a + b
      [] op = "Sub" -> a - b
      [] op = "Mul" -> a * b
      [] op = "Neg" -> -a
      [] op = "Div" -> ExactQuotient(a, b)
      [] op = "Mod" -> a - b * ExactQuotient(a, b)

Representable(op, a, b) ==
    /\ op \in {"Div", "Mod"} => b # 0
    /\ Exact(op, a, b) \in IntRange

IntegerCall == out.call \in ArithmeticOps \cup {"Neg"} /\ IntArguments

\* the second operand of the call (unary minus has none)
SecondOperand == IF Len(out.args) > 1 THEN out.args[2].i ELSE 0

\* C1, as stated: every operator on Ints yields the exact Int whenever that is
\* representable, and a reported error otherwise.
C1_ExactWheneverRepresentable ==
    IntegerCall =>
        IF Representable(out.call, out.args[1].i, SecondOperand)
        THEN out.res = Ok(Value_Int(Exact(out.call, out.args[1].i, SecondOperand)))
        ELSE out.res.tag = "Err"

\* C1, amended: every operator on Ints yields the exact Int whenever that is
\* representable, except MIN % -1, which is reported as an error like
\* MIN / -1; in every other case (overflow, zero divisor) it yields a
\* reported error, never a wrapped value and never a panic.
C1_CheckedArithmetic ==
    IntegerCall =>
        IF /\ Representable(out.call, out.args[1].i, SecondOperand)
           /\ ~(out.call = "Mod" /\ out.args[1].i = I64_MIN /\ SecondOperand = -1)
        THEN out.res = Ok(Value_Int(Exact(out.call, out.args[1].i, SecondOperand)))
        ELSE out.res.tag = "Err"

\* MAX + 1 has been evaluated and has been reported as an error
C1_Witness ==
    /\ out.call = "Add"
    /\ out.args = <<Value_Int(I64_MAX), Value_Int(1)>>
    /\ out.res.tag = "Err"

\* a Float payload that is NaN, in the value or in an element of a Tuple
RECURSIVE HasNaN(_)
HasNaN(v) ==
    \/ v.kind = "Float" /\ v.f.nan
    \/ v.kind = "Tuple" /\ \E k \in 1 .. Len(v.t) : HasNaN(v.t[k])

\* C6: two Values are equal exactly when they are of the same variant with
\* equal payloads (a NaN payload equals nothing, as for f64); an Int never
\* equals a Float.
C6_StructuralEquality ==
    out.call = "eq" =>
        LET a == out.args[1]
            b == out.args[2]
        IN  /\ out.res.tag = "Ok"
            /\ out.res.val.b = (a = b /\ ~HasNaN(a))
            /\ {a.kind, b.kind} = {"Int", "Float"} => ~out.res.val.b

\* Int(1) has been compared with Float(1.0) and found unequal
C6_Witness ==
    /\ out.call = "eq"
    /\ out.args = <<Value_Int(1), Value_Float(Fin(2))>>
    /\ out.res = Ok(Value_Boolean(FALSE))

\* the variant an accessor accepts, its is_* predicate and its error
AccessorKind(name) ==
    CASE name = "as_string" -> "String"
      [] name = "as_int" -> "Int"
      [] name = "as_float" -> "Float"
      [] name = "as_boolean" -> "Boolean"
      [] name = "as_tuple" -> "Tuple"
      [] name = "as_empty" -> "Empty"

AccessorPredicate(name, v) ==
    CASE name = "as_string" -> is_string(v)
      [] name = "as_int" -> is_int(v)
      [] name = "as_float" -> is_float(v)
      [] name = "as_boolean" -> is_boolean(v)
      [] name = "as_tuple" -> is_tuple(v)
      [] name = "as_empty" -> is_empty(v)

Magnitude(v) == IF v.kind = "Int" THEN 2 * v.i ELSE v.f.n

\* the argument is a Tuple of two or more Ints and Floats
NumberTuple(v) ==
    /\ v.kind = "Tuple"
    /\ Len(v.t) >= 2
    /\ \A k \in 1 .. Len(v.t) : is_number(v.t[k])

\* C8: min of a Tuple of two or more numbers returns the numerically
\* smallest argument, as an Int when that argument is an Int.
C8_MinReturnsSmallest ==
    (out.call = "min" /\ NumberTuple(out.args[1])) =>
        /\ out.res.tag = "Ok"
        /\ \E k \in 1 .. Len(out.args[1].t) : out.res.val = out.args[1].t[k]
        /\ \A k \in 1 .. Len(out.args[1].t) :
              Magnitude(out.res.val) <= Magnitude(out.args[1].t[k])

\* C9: min called with no argument fails with the "no minimum" error.
C9_MinOfNothingIsNoMinValue ==
    (out.call = "min" /\ out.args[1] \in {Value_Empty, Value_Tuple(<<>>)}) =>
        out.res = Err(NoMinValue)

\* C10: max of a Tuple of two or more numbers returns a value numerically
\* equal to the largest element.
C10_MaxReturnsLargest ==
    (out.call = "max" /\ NumberTuple(out.args[1])) =>
        /\ out.res.tag = "Ok"
        /\ is_number(out.res.val)
        /\ \E k \in 1 .. Len(out.args[1].t) :
              Magnitude(out.res.val) = Magnitude(out.args[1].t[k])
        /\ \A k \in 1 .. Len(out.args[1].t) :
              Magnitude(out.res.val) >= Magnitude(out.args[1].t[k])

\* the Int and the Float elements of an argument tuple, in half units
IntsOf(t) == {2 * t[k].i : k \in {j \in 1 .. Len(t) : t[j].kind = "Int"}}

FloatsOf(t) == {t[k].f.n : k \in {j \in 1 .. Len(t) : t[j].kind = "Float"}}

SetMin(S) == CHOOSE x \in S : \A y \in S : x <= y

SetMax(S) == CHOOSE x \in S : \A y \in S : x >= y

\* the extreme of a set of numbers for min and for max
Extreme(call, S) == IF call = "min" THEN SetMin(S) ELSE SetMax(S)

\* the argument tuple holds Ints and Floats, and the extreme Int equals the
\* extreme Float
Tie ==
    /\ out.call \in {"min", "max"}
    /\ NumberTuple(out.args[1])
    /\ IntsOf(out.args[1].t) # {}
    /\ FloatsOf(out.args[1].t) # {}
    /\ Extreme(out.call, IntsOf(out.args[1].t))
           = Extreme(out.call, FloatsOf(out.args[1].t))

\* C11: when the extreme Int argument of min or max equals the extreme Float
\* argument, the result is that Int, not the Float.
C11_TiesPreferInt ==
    Tie => /\ out.res.tag = "Ok"
           /\ out.res.val.kind = "Int"
           /\ 2 * out.res.val.i = Extreme(out.call, IntsOf(out.args[1].t))

\* the built-ins of a fixed arity of two or more, and their arity
Arity(name) ==
    CASE name \in MathFunctions \cup IntFunctions -> 2
      [] name = "if" -> 3
      [] name = "str::regex_matches" -> 2
      [] name = "str::regex_replace" -> 3

FixedArityNames == MathFunctions \cup IntFunctions \cup RegexFunctions \cup {"if"}

\* the call is of a fixed-arity built-in with a Tuple of another length
WrongArity ==
    /\ out.call \in FixedArityNames
    /\ out.args[1].kind = "Tuple"
    /\ Len(out.args[1].t) # Arity(out.call)

\* C12: a fixed-arity built-in called with a Tuple of another length returns
\* an error; it neither panics nor returns a value.
C12_WrongArityIsTypedError == WrongArity => out.res.tag = "Err"

\* C13: "if" applied to a Tuple (c, t, e) of exactly 3 elements with a
\* Boolean c returns t when c is true and e when c is false, unchanged; for
\* every other argument it returns an error.
C13_IfSelectsBranch ==
    out.call = "if" =>
        LET v == out.args[1]
        IN  IF v.kind = "Tuple" /\ Len(v.t) = 3 /\ v.t[1].kind = "Boolean"
            THEN out.res = Ok(IF v.t[1].b THEN v.t[2] ELSE v.t[3])
            ELSE /\ out.res.tag = "Err"
                 /\ out.res.err.kind \in
                        {"ExpectedTuple", "ExpectedFixedLenTuple", "ExpectedBoolean"}

\* if(false, 1, "a") has returned "a"
C13_Witness ==
    /\ out.call = "if"
    /\ out.args[1] = Value_Tuple(<<Value_Boolean(FALSE), Value_Int(1), Value_String("a")>>)
    /\ out.res = Ok(Value_String("a"))

\* C14: "len" returns Int(n) for a String of length n and for a Tuple of n
\* elements, and for every other argument a type error that carries the
\* argument and names the kinds String and Tuple.
C14_LenOfStringOrTuple ==
    out.call = "len" =>
        LET v == out.args[1]
        IN  CASE v.kind = "String" -> out.res = Ok(Value_Int(Len(v.s)))
              [] v.kind = "Tuple" -> out.res = Ok(Value_Int(Len(v.t)))
              [] OTHER -> /\ out.res.tag = "Err"
                          /\ out.res.err.kind = "TypeError"
                          /\ out.res.err.actual = v
                          /\ out.res.err.expected = <<"String", "Tuple">>

\* len of a Tuple of three elements has returned Int(3)
C14_Witness ==
    /\ out.call = "len"
    /\ out.args[1].kind = "Tuple"
    /\ Len(out.args[1].t) = 3
    /\ out.res = Ok(Value_Int(3))

\* C16: random() with no argument succeeds and returns a Float r with
\* 0 <= r <= 1.
C16_RandomInUnitInterval ==
    (out.call = "random" /\ out.args[1] = Value_Empty) =>
        /\ out.res.tag = "Ok"
        /\ out.res.val.kind = "Float"
        /\ ~out.res.val.f.nan
        /\ 0 <= out.res.val.f.n
        /\ out.res.val.f.n <= ONE_N

\* C17: random with an argument other than Empty returns an error and
\* samples no value.
C17_RandomRejectsArguments ==
    (out.call = "random" /\ out.args[1] # Value_Empty) =>
        /\ out.res = Err(expected_empty(out.args[1]))
        /\ out.log = <<>>

\* random has been called with a Tuple and has failed without a sample
C17_Witness ==
    /\ out.call = "random"
    /\ out.args[1].kind = "Tuple"
    /\ out.res.tag = "Err"
    /\ out.log = <<>>

\* the shift of a call, as a build of the given profile computes it
shift_in(call, profile, a, b) ==
    IF call = "shl" THEN shl_in(profile, a, b) ELSE shr_in(profile, a, b)

\* shl or shr has been called with a pair of Ints
ShiftOfInts ==
    /\ out.call \in {"shl", "shr"}
    /\ out.args[1].kind = "Tuple"
    /\ Len(out.args[1].t) = 2
    /\ out.args[1].t[1].kind = "Int"
    /\ out.args[1].t[2].kind = "Int"

\* C20: shl and shr of a pair of Ints return an Int or an error, never
\* panic, and return in every build what they return in this one.
C20_ShiftsNeverPanic ==
    ShiftOfInts =>
        /\ out.res.tag \in {"Ok", "Err"}
        /\ out.res.tag = "Ok" => out.res.val.kind = "Int"
        /\ \A profile \in Builds :
              LET r == shift_in(out.call, profile,
                                out.args[1].t[1].i, out.args[1].t[2].i)
              IN  /\ r.tag = "Some"
                  /\ out.res = Ok(Value_Int(r.val))

\* a function call has been evaluated and its argument has not failed
CallEvaluated ==
    /\ Evaluated
    /\ out.tree.op = "FunctionIdentifier"
    /\ eval_node(out.tree.children[1], out.ctx0).res.tag = "Ok"

\* C15: a function call invokes the function the context binds under the
\* name, also under the name of a built-in; without a binding it invokes the
\* built-in of that name; a name bound in neither is a lookup error.
C15_ContextFunctionsFirst ==
    CallEvaluated =>
        LET g == out.tree.identifier
            argument == eval_node(out.tree.children[1], out.ctx0).res.val
        IN  IF out.ctx0.functions[g] # ""
            THEN out.res = Ok(argument)
            ELSE IF g = "min" THEN out.res = builtin_min(argument)
            ELSE IF g = "max" THEN out.res = builtin_max(argument)
            ELSE /\ builtin_function(g) = None
                 /\ out.res = Err(FunctionIdentifierNotFound(g))

\* min(2) has been evaluated against a context that binds "min" to the
\* identity, and has returned 2; the built-in min fails on this argument
C15_Witness ==
    /\ Evaluated
    /\ out.tree = FunctionIdentifier("min", I(2))
    /\ out.ctx0.functions["min"] = "id"
    /\ out.res = Ok(Value_Int(2))
    /\ builtin_min(Value_Int(2)).tag = "Err"

\* undefined_fn() has been evaluated and is a lookup error
C15_WitnessUnresolved ==
    /\ Evaluated
    /\ out.tree = FunctionIdentifier("undefined_fn", Const(Value_Empty))
    /\ out.res = Err(FunctionIdentifierNotFound("undefined_fn"))

RECURSIVE PathsFrom(_, _)
\* the references to the nodes of the subtree at a path, the path included
PathsFrom(root, path) ==
    {path} \cup UNION {PathsFrom(root, Append(path, k)) :
                          k \in 0 .. Len(NodeAt(root, path).children) - 1}

\* the references to all nodes of the tree, the root's reference <<>> included
AllNodes(root) == PathsFrom(root, <<>>)

Yielded == {iter.yielded[k] : k \in 1 .. Len(iter.yielded)}

\* next has returned None: the iteration is over
Exhausted == iter # NoIter /\ iter.returned = "None"

\* C18: the iterator of Node::iter yields every node of the tree, the node it
\* is called on included, exactly once, and nothing else.
C18_IterYieldsEveryNodeOnce ==
    iter # NoIter =>
        /\ Yielded \subseteq AllNodes(iter.root)
        /\ \A j, k \in 1 .. Len(iter.yielded) :
              iter.yielded[j] = iter.yielded[k] => j = k
        /\ Exhausted => Yielded = AllNodes(iter.root)

\* p is the reference of a proper ancestor of the node of q
IsAncestor(p, q) == Len(p) < Len(q) /\ SubSeq(q, 1, Len(p)) = p

Parent(q) == SubSeq(q, 1, Len(q) - 1)

\* p is in the subtree of a sibling to the left of the node of q
LeftOf(p, q) ==
    /\ q # <<>>
    /\ Len(p) >= Len(q)
    /\ SubSeq(p, 1, Len(q) - 1) = Parent(q)
    /\ p[Len(q)] < q[Len(q)]

\* the references yielded before the j-th
YieldedBefore(j) == {iter.yielded[k] : k \in 1 .. j - 1}

\* C19: the nodes come in pre-order: a node before every node of its
\* subtree, the children of a node from left to right, and the whole
\* subtree of a child before the next sibling of the child.
C19_PreOrder ==
    iter # NoIter =>
        \A j \in 1 .. Len(iter.yielded) :
            LET q == iter.yielded[j]
            IN  /\ \A k \in 1 .. Len(iter.yielded) :
                      IsAncestor(iter.yielded[k], q) => k < j
                /\ Len(q) > 1 => Parent(q) \in YieldedBefore(j)
                /\ \A p \in AllNodes(iter.root) :
                      LeftOf(p, q) => p \in YieldedBefore(j)

\* the tree ((1 + 1) + 1) + (1 + 1) has been iterated to the end: the left
\* operand and its whole subtree have been yielded before the right operand
C19_Witness ==
    /\ Exhausted
    /\ iter.root = Binary("Add", Binary("Add", Binary("Add", Leaf, Leaf), Leaf),
                          Binary("Add", Leaf, Leaf))
    /\ iter.yielded = << <<0>>, <<0, 0>>, <<0, 0, 0>>, <<0, 0, 1>>, <<0, 1>>,
                         <<1>>, <<1, 0>>, <<1, 1>> >>

\* the number of nodes of the tree the iterator borrows
NodeCount == Cardinality(AllNodes(iter.root))

\* C21: on every finite tree the calls of next return Some at most as many
\* times as the tree has nodes; the stack, which bounds the rounds of the loop
\* of a call, never holds more iterators than the tree has nodes; the calls
\* come to return None, with the stack empty; and once next has returned
\* None every later call returns None and yields nothing.
C21_IterationTerminates ==
    /\ [](iter # NoIter =>
            /\ Len(iter.yielded) <= NodeCount
            /\ Len(iter.stack) <= NodeCount
            /\ iter.returned = "None" => iter.stack = <<>>)
    /\ [][iter.returned = "None" =>
            iter'.returned = "None" /\ iter'.yielded = iter.yielded]_vars
    /\ (iter # NoIter ~> Exhausted)

\* the iteration over a tree of three levels and full width has ended: next
\* has returned None and has left the stack empty
C21_Witness ==
    /\ Exhausted
    /\ iter.stack = <<>>
    /\ Len(iter.root.children) = MaxChildren
    /\ \A k \in 1 .. MaxChildren : Len(iter.root.children[k].children) = MaxChildren
    /\ Len(iter.yielded) = NodeCount - 1

====
